---- MODULE Spec2Model ----
(***************************************************************************)
(* A model of kidshell (src/shell.c): the prompt / read / expand /        *)
(* dispatch loop of main, the builtins export, unset, cd and exit, and     *)
(* launch with its fork / execvp / waitpid protocol.                       *)
(*                                                                         *)
(* Text is modelled as sequences of fragments: a word is a sequence of     *)
(* strings, the fragment "=" standing for the character '='.  A line is a  *)
(* sequence of items, each a literal word, a variable reference, an        *)
(* assigning expansion, a command substitution, an unsupported             *)
(* metacharacter, an unmatched quote, or the line terminator.              *)
(***************************************************************************)
EXTENDS Naturals, Sequences, FiniteSets

VARIABLES
    pc,          \* position of the shell process in main
    line,        \* the line read in this iteration, after trim_newline
    wordv,       \* p.we_wordv as filled by this iteration's wordexp
    argi,        \* index in wordv of the argument *argv of do_export / do_unset
    env,         \* the Environment Store: a function from keys to values
    cwd,         \* the working directory of the shell process
    child,       \* the processes forked by launch, by pid
    waitPid,     \* the pid launch is waiting for (0: none)
    sigchld,     \* the disposition of SIGCHLD the shell has inherited
    stdoutMode,  \* buffering of stdout: "_IOLBF" (a terminal) or "_IOFBF"
    err,         \* diagnostics written by error() in this iteration
    promptLabel, \* what this iteration's prompt showed between the brackets
    report,      \* the termination reports printed in this iteration
    eofNewlines, \* newlines printed by the end-of-input branch
    stdinState,  \* the indicators of stdin: "eof" (feof), "error" (ferror),
                 \* "open" when neither is set
    out,         \* what stdout has delivered since the last line was read
    outBuf,      \* what has been written to stdout and is not flushed yet
    lastEc,      \* return value of this iteration's wordexp call
    lastFlags,   \* flags passed to the last wordexp call of the loop
    lineSubs,    \* command substitutions run by wordexp for the current line
    lineForks,   \* fork() calls made for the current line
    launched,    \* program, argv and environment of the last launch
    builtinRan,  \* builtin handler entered for the current line
    chdirTried,  \* whether do_cd called chdir for the current line
    chdirTarget, \* the directory do_cd passed to chdir
    setFailed,   \* indices of export arguments whose setenv failed
    envAtPrompt, \* Environment Store when this iteration began
    cwdAtPrompt, \* working directory when this iteration began
    lineFreed,   \* number of free(line) calls
    expFreed,    \* number of wordfree(&p) calls
    exitStatus   \* <<status>> once the shell process has ended, <<>> before

vars == <<pc, line, wordv, argi, env, cwd, child, waitPid, sigchld, stdoutMode,
          err,
          promptLabel, report, eofNewlines, stdinState, out, outBuf, lastEc,
          lastFlags, lineSubs,
          lineForks, launched, builtinRan, chdirTried, chdirTarget, setFailed,
          envAtPrompt, cwdAtPrompt, lineFreed, expFreed, exitStatus>>

-----------------------------------------------------------------------------
(* Bounds and program constants *)

\* Number of process slots available to the shell's children (fork fails
\* with EAGAIN when all are in use).
MaxChildren == 2

\* Exit statuses of the shell process and of a child whose execvp failed.
EXIT_SUCCESS == 0
EXIT_FAILURE == 1

\* Exit codes and signals with which a launched program may end.
ExitCodes == {0, 2}
Signals == {9, 11}
SIGKILL == 9
SIGSTOP == 19

-----------------------------------------------------------------------------
(* Words *)

EQ == "="

W_export == <<"export">>
W_unset  == <<"unset">>
W_exit   == <<"exit">>
W_cd     == <<"cd">>
HOME     == <<"HOME">>
A        == <<"A">>
D1       == <<"d1">>
D2       == <<"d2">>
LS       == <<"ls">>

\* the word vector holds nothing before the first expansion
NoWords == <<>>

\* Position of the first '=' of a word, 0 when there is none.
RECURSIVE FirstEqFrom(_, _)
FirstEqFrom(w, i) ==
    IF i > Len(w) THEN 0
    ELSE IF w[i] = EQ THEN i
    ELSE FirstEqFrom(w, i + 1)

FirstEq(w) == FirstEqFrom(w, 1)

HasEq(w) == FirstEq(w) # 0

\* strsep(&value, "="): the key is the text before the first '=', the value
\* what follows it; without '=' the key is the whole word and value is NULL.
strsepKey(w) == IF HasEq(w) THEN SubSeq(w, 1, FirstEq(w) - 1) ELSE w

strsepValue(w) == SubSeq(w, FirstEq(w) + 1, Len(w))

-----------------------------------------------------------------------------
(* The Environment Store *)

\* faulty variant: the empty name is accepted
ValidNameAllowsEmpty(k) == ~HasEq(k)

\* setenv and unsetenv reject (EINVAL) an empty name and a name holding '='.
ValidName(k) == k # <<>> /\ ~HasEq(k)

\* the environment the shell inherits
InitEnv == [k \in {HOME} |-> D1]

\* faulty variant: HOME is looked up in the environment the shell started with
getenvAtStartup(e, k) == IF k \in DOMAIN InitEnv THEN <<InitEnv[k]>> ELSE <<>>

getenv(e, k) == IF k \in DOMAIN e THEN <<e[k]>> ELSE <<>>

\* faulty variant: setenv called with overwrite = 0 keeps an existing value
setenvNoOverwrite(e, k, v, nomem) ==
    IF ~ValidName(k) \/ nomem
    THEN [rc |-> "fail", env |-> e]
    ELSE [rc |-> "ok",
          env |-> [x \in DOMAIN e \cup {k} |->
                      IF x = k /\ k \notin DOMAIN e THEN v ELSE e[x]]]

\* setenv(key, value, true); nomem is the out-of-memory outcome (ENOMEM).
setenv(e, k, v, nomem) ==
    IF ~ValidName(k) \/ nomem
    THEN [rc |-> "fail", env |-> e]
    ELSE [rc |-> "ok",
          env |-> [x \in DOMAIN e \cup {k} |-> IF x = k THEN v ELSE e[x]]]

\* faulty variant: removing a name that is not set is reported as a failure
unsetenvMissingFails(e, k) ==
    IF ~ValidName(k) \/ k \notin DOMAIN e
    THEN [rc |-> "fail", env |-> e]
    ELSE [rc |-> "ok", env |-> [x \in DOMAIN e \ {k} |-> e[x]]]

\* unsetenv(name): removing a name that is not set succeeds.
unsetenv(e, k) ==
    IF ~ValidName(k)
    THEN [rc |-> "fail", env |-> e]
    ELSE [rc |-> "ok", env |-> [x \in DOMAIN e \ {k} |-> e[x]]]

-----------------------------------------------------------------------------
(* Lines and word expansion *)

Lit(w)  == [t |-> "w", w |-> w, d |-> <<>>]       \* a literal word
Ref(k)  == [t |-> "var", w |-> k, d |-> <<>>]     \* $k
Assign(k, v) == [t |-> "assign", w |-> k, d |-> v] \* ${k:=v}
Sub     == [t |-> "sub", w |-> <<>>, d |-> <<>>]  \* $(...)
Bad     == [t |-> "bad", w |-> <<>>, d |-> <<>>]  \* one of | & ; < > ( ) { }
Quote   == [t |-> "quote", w |-> <<>>, d |-> <<>>]\* an unmatched quote
NL      == [t |-> "nl", w |-> <<>>, d |-> <<>>]   \* the line terminator

\* what the command run by a command substitution prints
SubOutput == <<"out">>

\* trim_newline: strips one trailing line terminator, if present.
trim_newline(l) ==
    IF Len(l) <= 0 THEN l
    ELSE IF l[Len(l)] = NL THEN SubSeq(l, 1, Len(l) - 1)
    ELSE l

\* flags of the wordexp call in the main loop
MainFlags == {"WRDE_REUSE", "WRDE_SHOWERR", "WRDE_UNDEF"}

WRDE_OK == "OK"
ClassifiedErrors ==
    {"WRDE_BADCHAR", "WRDE_BADVAL", "WRDE_CMDSUB", "WRDE_NOSPACE", "WRDE_SYNTAX"}
WRDE_UNEXPECTED == "WRDE_UNEXPECTED"

\* what a wordexp call leaves behind: its return value, we_wordv, the
\* number of command substitutions it ran, and the environment of the
\* process, which an assigning expansion changes during the scan
WordexpResult(ec, words, subs, e) ==
    [ec |-> ec, wordv |-> words, subs |-> subs, env |-> e]

\* the word a value contributes to we_wordv: an empty value gives no word
WithValue(words, v) == IF v = <<>> THEN words ELSE Append(words, v)

\* ${k:=v} assigns when k is unset or holds the empty string
AssignApplies(it, e) == it.w \notin DOMAIN e \/ e[it.w] = <<>>

\* wordexp scans the line left to right.  A command substitution is run
\* when it is met unless WRDE_NOCMD is given; an undefined variable is an
\* error under WRDE_UNDEF, also in an assigning expansion, which otherwise
\* stores its word with setenv as soon as it is met and goes on with the
\* word whether or not that call succeeded (nomem: the first setenv call
\* of the scan fails); an unquoted
\* metacharacter or newline and an unmatched quote end the scan with an
\* error.  What the scan has done to the environment before an error stays.
RECURSIVE ExpandItems(_, _, _, _, _, _)
ExpandItems(items, flags, e, words, subs, nomem) ==
    IF items = <<>> THEN WordexpResult(WRDE_OK, words, subs, e)
    ELSE
      LET it == Head(items)
          rest == Tail(items)
      IN CASE it.t = "w" ->
                ExpandItems(rest, flags, e, Append(words, it.w), subs,
                            nomem)
           [] it.t = "var" ->
                IF it.w \in DOMAIN e
                THEN ExpandItems(rest, flags, e, WithValue(words, e[it.w]),
                                 subs, nomem)
                ELSE IF "WRDE_UNDEF" \in flags
                     THEN WordexpResult("WRDE_BADVAL", NoWords, subs, e)
                     ELSE ExpandItems(rest, flags, e, words, subs, nomem)
           [] it.t = "assign" ->
                IF it.w \notin DOMAIN e /\ "WRDE_UNDEF" \in flags
                THEN WordexpResult("WRDE_BADVAL", NoWords, subs, e)
                ELSE IF AssignApplies(it, e)
                     THEN ExpandItems(rest, flags,
                                      setenv(e, it.w, it.d, nomem).env,
                                      WithValue(words, it.d), subs, FALSE)
                     ELSE ExpandItems(rest, flags, e,
                                      WithValue(words, e[it.w]), subs, nomem)
           [] it.t = "sub" ->
                IF "WRDE_NOCMD" \in flags
                THEN WordexpResult("WRDE_CMDSUB", NoWords, subs, e)
                ELSE ExpandItems(rest, flags, e, Append(words, SubOutput),
                                 subs + 1, nomem)
           [] it.t \in {"bad", "nl"} ->
                WordexpResult("WRDE_BADCHAR", NoWords, subs, e)
           [] OTHER ->
                WordexpResult("WRDE_SYNTAX", NoWords, subs, e)

\* an outcome of wordexp the line does not decide: "nospace", an allocation
\* that fails while item `at` of the line is expanded (at = 0: before the
\* first item), before or after the command substitution or the assignment
\* of that item has been done; "setenv", the first setenv call of the scan
\* fails (ENOMEM), which wordexp does not look at;
\* "unexpected", a code outside the documented ones
Fault(kind, at, ran) == [kind |-> kind, at |-> at, ran |-> ran]
NoFault == Fault("none", 0, FALSE)

ExpandFaults(l) ==
    {NoFault, Fault("unexpected", 0, FALSE)}
    \cup {Fault("nospace", i, b) : i \in 0..Len(l), b \in BOOLEAN}
    \cup (IF \E i \in 1..Len(l) : l[i].t = "assign"
          THEN {Fault("setenv", 0, FALSE)} ELSE {})

\* the assignment wordexp makes at item it in the environment e under the
\* given flags, if any
WordexpAssigns(it, flags, e) ==
    /\ it.t = "assign"
    /\ ~(it.w \notin DOMAIN e /\ "WRDE_UNDEF" \in flags)
    /\ AssignApplies(it, e)

\* the allocation fails at item f.at: the scan has handled the items before
\* it, and their words stay in we_wordv; an error met before that point is
\* the result instead
ExpandNoSpace(l, flags, e, f) ==
    IF f.at = 0 THEN WordexpResult("WRDE_NOSPACE", NoWords, 0, e)
    ELSE
      LET before == ExpandItems(SubSeq(l, 1, f.at - 1), flags, e, NoWords, 0,
                                FALSE)
          it == l[f.at]
          runs == f.ran /\ it.t = "sub" /\ "WRDE_NOCMD" \notin flags
          assigns == f.ran /\ WordexpAssigns(it, flags, before.env)
      IN IF before.ec # WRDE_OK THEN before
         ELSE WordexpResult("WRDE_NOSPACE", before.wordv,
                            before.subs + (IF runs THEN 1 ELSE 0),
                            IF assigns
                            THEN setenv(before.env, it.w, it.d, FALSE).env
                            ELSE before.env)

\* wordexp(line, &p, flags)
wordexp(l, flags, e, fault) ==
    CASE fault.kind = "nospace" -> ExpandNoSpace(l, flags, e, fault)
      [] fault.kind = "setenv" -> ExpandItems(l, flags, e, NoWords, 0, TRUE)
      [] fault.kind = "unexpected" ->
           WordexpResult(WRDE_UNEXPECTED, NoWords, 0, e)
      [] OTHER -> ExpandItems(l, flags, e, NoWords, 0, FALSE)

LineHasSub(l) == \E i \in 1..Len(l) : l[i].t = "sub"

-----------------------------------------------------------------------------
(* The world outside the shell: input lines, directories, programs *)

\* directories chdir can enter; every other target fails (ENOENT)
Dirs == {D1, D2}

\* programs execvp finds; every other name fails
Programs == {LS}

Cmd(ws) == [i \in 1..Len(ws) |-> Lit(ws[i])] \o <<NL>>

\* the lines standard input may deliver, as getline returns them
Lines ==
    { <<NL>>,
      Cmd(<<W_export, <<"A", EQ, "1">>>>),
      Cmd(<<W_export, <<"A", EQ, "1">>, <<"A", EQ, "2">>>>),
      Cmd(<<W_export, <<"A", EQ, "1", EQ, "2">>>>),
      Cmd(<<W_export, A>>),
      Cmd(<<W_export, A, <<"HOME", EQ, "d2">>>>),
      Cmd(<<W_export, <<EQ, "1">>, <<"A", EQ, "2">>>>),
      Cmd(<<W_export, <<"A", EQ>>>>),
      Cmd(<<W_export>>),
      Cmd(<<W_unset, A>>),
      Cmd(<<W_unset, <<"A", EQ, "1">>, HOME>>),
      Cmd(<<W_unset>>),
      Cmd(<<W_cd>>),
      Cmd(<<W_cd, D1>>),
      Cmd(<<W_cd, D2>>),
      Cmd(<<W_cd, <<"nodir">>>>),
      Cmd(<<W_cd, D2, D1>>),
      Cmd(<<W_exit>>),
      Cmd(<<W_exit, <<"3">>>>),
      Cmd(<<LS>>),
      Cmd(<<LS, A>>),
      Cmd(<<<<"CD">>, D2>>),
      <<Lit(LS)>>,
      <<Lit(W_exit)>>,
      <<Lit(LS), Bad, NL>>,
      <<Lit(LS), Ref(A), NL>>,
      <<Lit(LS), Assign(A, <<"1">>), NL>>,
      <<Lit(LS), Assign(A, <<"1">>), Bad, NL>>,
      <<Lit(W_cd), Assign(A, D2), NL>>,
      <<Lit(LS), Sub, NL>>,
      <<Sub, Bad, NL>>,
      <<Lit(LS), Quote, NL>>
    }

-----------------------------------------------------------------------------
(* Child processes *)

Pids == 1..MaxChildren

NoStatus == [kind |-> "none", n |-> 0, core |-> FALSE]
Exited(c) == [kind |-> "exited", n |-> c, core |-> FALSE]
Signaled(s, core) == [kind |-> "signaled", n |-> s, core |-> core]
Stopped(s) == [kind |-> "stopped", n |-> s, core |-> FALSE]

\* the signals whose default action writes a core file
CoreSignals == {3, 4, 5, 6, 7, 8, 11, 24, 25, 31}

\* the ways a launched program may end
Endings ==
    {Exited(c) : c \in ExitCodes}
    \cup {Signaled(g, FALSE) : g \in Signals}
    \cup {Signaled(g, TRUE) : g \in Signals \cap CoreSignals}

\* the status word waitpid stores for each way a child can change state
WStatus(ws) ==
    CASE ws.kind = "exited" -> (ws.n % 256) * 256
      [] ws.kind = "signaled" -> ws.n + (IF ws.core THEN 128 ELSE 0)
      [] OTHER -> ws.n * 256 + 127

WIFEXITED(w) == w % 128 = 0
WEXITSTATUS(w) == (w \div 256) % 256
WIFSIGNALED(w) == (w % 128) \notin {0, 127}
WTERMSIG(w) == w % 128

\* the decimal digits of a number, as printf("%d") writes them
Digit(d) == <<"0", "1", "2", "3", "4", "5", "6", "7", "8", "9">>[d + 1]

RECURSIVE Decimal(_)
Decimal(n) == IF n < 10 THEN Digit(n) ELSE Decimal(n \div 10) \o Digit(n % 10)

\* the descriptions of the signals 1..31
SignalNames ==
    <<"Hangup", "Interrupt", "Quit", "Illegal instruction",
      "Trace/breakpoint trap", "Aborted", "Bus error",
      "Floating point exception", "Killed", "User defined signal 1",
      "Segmentation fault", "User defined signal 2", "Broken pipe",
      "Alarm clock", "Terminated", "Stack fault", "Child exited",
      "Continued", "Stopped (signal)", "Stopped", "Stopped (tty input)",
      "Stopped (tty output)", "Urgent I/O condition",
      "CPU time limit exceeded", "File size limit exceeded",
      "Virtual timer expired", "Profiling timer expired", "Window changed",
      "I/O possible", "Power failure", "Bad system call">>

\* the real-time signals
SIGRTMIN == 34
SIGRTMAX == 64

strsignal(g) ==
    CASE g \in 1..Len(SignalNames) -> SignalNames[g]
      [] g \in SIGRTMIN..SIGRTMAX -> "Real-time signal " \o Decimal(g - SIGRTMIN)
      [] OTHER -> "Unknown signal " \o Decimal(g)

\* faulty variant: the status word is printed as it is
TerminationReportRaw(w) ==
    IF WIFEXITED(w)
    THEN <<[text |-> "Process exited with error code", n |-> w, name |-> ""]>>
    ELSE <<[text |-> "Process was terminated by signal", n |-> w,
            name |-> strsignal(w)]>>

\* the line launch prints for a status word (lines 104-107)
TerminationReport(w) ==
    IF WIFEXITED(w)
    THEN <<[text |-> "Process exited with error code", n |-> WEXITSTATUS(w),
            name |-> ""]>>
    ELSE <<[text |-> "Process was terminated by signal", n |-> WTERMSIG(w),
            name |-> strsignal(WTERMSIG(w))]>>

\* a process slot: st is the position of the child ("forked": a copy of the
\* shell between fork and execvp; "running": the launched program; "shell":
\* a copy of the shell that has gone back into main's loop), diag what it
\* has written to stderr, buf its copy of the shell's stdout buffer, echo
\* what it has delivered from that copy
FreeSlot ==
    [st |-> "free", prog |-> <<>>, ws |-> NoStatus, diag |-> <<>>,
     buf |-> <<>>, echo |-> <<>>, traced |-> FALSE]

\* a child is alive from fork until it terminates
Alive(c) == c.st \in {"forked", "running", "stopped", "shell"}

FreePids == {p \in Pids : child[p].st = "free"}

LowestFree == CHOOSE p \in FreePids : \A q \in FreePids : p <= q

-----------------------------------------------------------------------------
(* Initial state: main up to the first iteration (lines 124-130) *)

Init ==
    /\ pc = "prompt"
    /\ line = <<>>
    /\ wordv = NoWords
    /\ argi = 1
    /\ env = InitEnv
    /\ cwd = D1
    /\ child = [p \in Pids |-> FreeSlot]
    /\ waitPid = 0
    /\ sigchld \in {"SIG_DFL", "SIG_IGN"}
    /\ stdoutMode \in {"_IOFBF", "_IOLBF"}
    /\ err = <<>>
    /\ promptLabel = <<>>
    /\ report = <<>>
    /\ eofNewlines = 0
    /\ stdinState = "open"
    /\ out = <<>>
    /\ outBuf = <<>>
    /\ lastEc = "none"
    /\ lastFlags = {}
    /\ lineSubs = 0
    /\ lineForks = 0
    /\ launched = <<>>
    /\ builtinRan = "none"
    /\ chdirTried = FALSE
    /\ chdirTarget = <<>>
    /\ setFailed = {}
    /\ envAtPrompt = env
    /\ cwdAtPrompt = cwd
    /\ lineFreed = 0
    /\ expFreed = 0
    /\ exitStatus = <<>>

\* variables written only by do_cd, by the export loop, and by launch
cdVars == <<chdirTried, chdirTarget>>
procVars ==
    <<child, waitPid, sigchld, stdoutMode, report, lineForks, launched>>
expandVars == <<lastEc, lastFlags, lineSubs>>
iterVars == <<line, envAtPrompt, cwdAtPrompt>>
endVars == <<lineFreed, expFreed, exitStatus>>

-----------------------------------------------------------------------------
(* stdout: printf appends to the buffer of the stream; fflush, error(), which
   flushes stdout before it writes its message, and exit() deliver the buffer.
   A line buffered stream also delivers it when a newline is written. *)

stdoutVars == <<out, outBuf>>

DirLine(label) == [k |-> "dir", text |-> label, n |-> 0]
Marker == [k |-> "marker", text |-> <<>>, n |-> 0]
Newline == [k |-> "nl", text |-> <<>>, n |-> 0]
ReportLine(r) == [k |-> "report", text |-> <<r.text, r.name>>, n |-> r.n]

\* printf of a text that ends with a newline
PrintLine(mode, delivered, pending, item) ==
    IF mode = "_IOLBF"
    THEN [out |-> delivered \o pending \o <<item>>, buf |-> <<>>]
    ELSE [out |-> delivered, buf |-> Append(pending, item)]

\* the buffer is delivered
Flush ==
    /\ out' = out \o outBuf
    /\ outBuf' = <<>>

\* the effect on stdout of a step that prints nothing itself: the buffer is
\* delivered when the step called error() or ended the process
StdoutAfterStep ==
    IF err' # err \/ pc' = "done" THEN Flush ELSE UNCHANGED stdoutVars

\* faulty variant: the prompt is written and not flushed
PromptOutputNoFlush(pending, label) ==
    [out |-> <<>>, buf |-> pending \o <<DirLine(label), Marker>>]

\* faulty variant: stdout is flushed before the second line is written
PromptOutputFlushEarly(pending, label) ==
    [out |-> pending \o <<DirLine(label)>>, buf |-> <<Marker>>]

\* what prompt() does to stdout (lines 36-38): two printf calls, then
\* fflush, which delivers them after whatever was pending
PromptOutput(pending, label) ==
    [out |-> pending \o <<DirLine(label), Marker>>, buf |-> <<>>]

-----------------------------------------------------------------------------
(* prompt() *)

PathTooLong == <<"!Path too long to be shown!">>
FailedCwd == <<"!Failed to get CWD!">>

\* the label shown for each getcwd outcome
PromptLabelFor(outcome, dir) ==
    CASE outcome = "ok" -> dir
      [] outcome = "ERANGE" -> PathTooLong
      [] OTHER -> FailedCwd

\* prompt() opens an iteration of the loop: the records kept about one
\* iteration start empty.
Prompt ==
    /\ pc = "prompt"
    /\ \E outcome \in {"ok", "ERANGE", "EIO"} :
          /\ promptLabel' = PromptLabelFor(outcome, cwd)
          /\ err' = IF outcome = "EIO" THEN <<"Couldn't get cwd">> ELSE <<>>
    /\ pc' = "read"
    /\ line' = <<>>
    /\ wordv' = NoWords
    /\ report' = <<>>
    /\ lastEc' = "none"
    /\ lineSubs' = 0
    /\ lineForks' = 0
    /\ launched' = <<>>
    /\ builtinRan' = "none"
    /\ chdirTried' = FALSE
    /\ chdirTarget' = <<>>
    /\ setFailed' = {}
    /\ envAtPrompt' = env
    /\ cwdAtPrompt' = cwd
    /\ out' = out \o PromptOutput(outBuf, promptLabel').out
    /\ outBuf' = PromptOutput(outBuf, promptLabel').buf
    /\ UNCHANGED <<argi, env, cwd, child, waitPid, sigchld, stdoutMode,
                   lastFlags,
                   endVars, eofNewlines, stdinState>>

-----------------------------------------------------------------------------
(* Leaving the loop: lines 177-182, and error(EXIT_FAILURE, ...) *)

\* error(EXIT_FAILURE, ...): the message is written and exit() is called at
\* once; nothing after the call runs.
Fatal(msg) ==
    /\ pc' = "done"
    /\ err' = Append(err, msg)
    /\ exitStatus' = <<EXIT_FAILURE>>
    /\ UNCHANGED <<lineFreed, expFreed>>

\* faulty variant: main ends without a defined status, here a non-zero one
ReleaseAndReturnNoStatus ==
    /\ pc' = "done"
    /\ expFreed' = expFreed + 1
    /\ lineFreed' = lineFreed + 1
    /\ exitStatus' = <<EXIT_FAILURE>>
    /\ UNCHANGED err

\* the code after the loop when ferror(stdin) is false
ReleaseAndReturn ==
    /\ pc' = "done"
    /\ expFreed' = expFreed + 1
    /\ lineFreed' = lineFreed + 1
    /\ exitStatus' = <<EXIT_SUCCESS>>
    /\ UNCHANGED err

\* the code after the loop (lines 177-182)
AfterLoop(ferr) ==
    IF ferr THEN Fatal("Failed to read next line") ELSE ReleaseAndReturn

-----------------------------------------------------------------------------
(* End of input (lines 134-137, 177-182) *)

\* the ways getline returns -1: end of input, a read error, and a failed
\* allocation of the line buffer (ENOMEM), which touches no indicator
GetLineFailures == {"eof", "error", "nomem"}

\* the indicators of stdin after getline has returned -1: an indicator that
\* is already set stays, and the call returns at once
AfterGetLineFailure(state, how) ==
    IF state = "open" /\ how # "nomem" THEN how ELSE state

\* getline returns -1: the newline is printed and the loop is left; what
\* follows depends on ferror(stdin) alone.
GetLineEnd ==
    /\ pc = "read"
    /\ eofNewlines' = eofNewlines + 1
    /\ \E how \in GetLineFailures :
          /\ stdinState' = AfterGetLineFailure(stdinState, how)
          /\ AfterLoop(stdinState' = "error")
    /\ out' = out \o outBuf \o <<Newline>>
    /\ outBuf' = <<>>
    /\ UNCHANGED <<wordv, argi, env, cwd, promptLabel, builtinRan, setFailed,
                   cdVars, procVars, expandVars, iterVars>>

-----------------------------------------------------------------------------
(* getline, trim_newline, wordexp and the switch (lines 134-160) *)

ExpandMessage(ec) ==
    CASE ec = "WRDE_BADCHAR" -> "Illegal occurrence of newline or metacharacter"
      [] ec = "WRDE_BADVAL" -> "Undefined shell variable was referenced"
      [] ec = "WRDE_CMDSUB" -> "Command line substitution is prohibited"
      [] ec = "WRDE_NOSPACE" -> "Out of memory"
      [] ec = "WRDE_SYNTAX" -> "Syntax error"
      [] OTHER -> "Unexpected wordexp error code"

\* where the switch sends control: break (on to the dispatch), continue
\* (back to the prompt), or the fatal default
SwitchNext(ec) ==
    CASE ec = WRDE_OK -> "dispatch"
      [] ec \in ClassifiedErrors -> "prompt"
      [] OTHER -> "done"

\* the indicator of stdin after getline has returned the line l: a line
\* that ends with its newline leaves the stream as it was; a line without
\* one was cut short by the end of input or by a read error
HasNewline(l) == l # <<>> /\ l[Len(l)] = NL

AfterLine(l) == IF HasNewline(l) THEN {"open"} ELSE {"eof", "error"}

\* One pass from getline to the end of the switch: the line is read and
\* trimmed, expanded with the loop's flags, and the switch decides where
\* control goes.
ReadLine ==
    /\ pc = "read"
    /\ stdinState = "open"
    /\ \E l \in Lines : \E fault \in ExpandFaults(trim_newline(l)) :
          LET r == wordexp(trim_newline(l), MainFlags, env, fault) IN
          /\ stdinState' \in AfterLine(l)
          /\ line' = trim_newline(l)
          /\ lastEc' = r.ec
          /\ lastFlags' = MainFlags
          /\ lineSubs' = r.subs
          /\ wordv' = r.wordv
          /\ env' = r.env
          /\ CASE SwitchNext(r.ec) = "dispatch" ->
                    /\ pc' = "dispatch"
                    /\ UNCHANGED <<err, endVars>>
               [] SwitchNext(r.ec) = "prompt" ->
                    /\ pc' = "prompt"
                    /\ err' = Append(err, ExpandMessage(r.ec))
                    /\ UNCHANGED endVars
               [] OTHER -> Fatal(ExpandMessage(r.ec))
    /\ out' = IF err' # err THEN outBuf ELSE <<>>
    /\ outBuf' = IF err' # err THEN <<>> ELSE outBuf
    /\ UNCHANGED <<argi, cwd, promptLabel, builtinRan, setFailed, cdVars,
                   procVars, envAtPrompt, cwdAtPrompt, eofNewlines>>

-----------------------------------------------------------------------------
(* The dispatch on the first word (lines 161-175) *)

\* faulty variant: the first word is compared without regard to case
DispatchTargetNoCase(ws) ==
    IF Len(ws) = 0 THEN "none"
    ELSE CASE ws[1] = W_export -> "export"
           [] ws[1] = W_unset -> "unset"
           [] ws[1] = W_exit -> "exit"
           [] ws[1] \in {W_cd, <<"CD">>} -> "cd"
           [] OTHER -> "launch"

\* the branch taken for a word vector
DispatchTarget(ws) ==
    IF Len(ws) = 0 THEN "none"
    ELSE CASE ws[1] = W_export -> "export"
           [] ws[1] = W_unset -> "unset"
           [] ws[1] = W_exit -> "exit"
           [] ws[1] = W_cd -> "cd"
           [] OTHER -> "launch"

\* do_export and do_unset start at we_wordv + 1 and loop while *argv != NULL
LoopOrPrompt(ws, i, loop) == IF i <= Len(ws) THEN loop ELSE "prompt"

\* ++argv; the local goes out of scope when the loop ends (recorded as 1)
NextArg(ws, i) == IF i + 1 <= Len(ws) THEN i + 1 ELSE 1

Dispatch ==
    /\ pc = "dispatch"
    /\ LET t == DispatchTarget(wordv) IN
          /\ builtinRan' = IF t \in {"export", "unset", "exit", "cd"} THEN t
                           ELSE "none"
          /\ argi' = IF t \in {"export", "unset"} /\ Len(wordv) >= 2 THEN 2 ELSE 1
          /\ CASE t = "none" -> pc' = "prompt" /\ UNCHANGED <<err, endVars>>
               [] t = "exit" -> AfterLoop(stdinState = "error")
               [] t \in {"export", "unset"} ->
                    /\ pc' = LoopOrPrompt(wordv, 2, t)
                    /\ UNCHANGED <<err, endVars>>
               [] OTHER -> pc' = t /\ UNCHANGED <<err, endVars>>
    /\ StdoutAfterStep
    /\ UNCHANGED <<wordv, env, cwd, promptLabel, setFailed, cdVars, procVars,
                   expandVars, iterVars, eofNewlines, stdinState>>

-----------------------------------------------------------------------------
(* do_export (lines 41-56) *)

\* strdup (lines 44-47): failure is fatal
ExportDup ==
    /\ pc = "export"
    /\ \E copied \in BOOLEAN :
          IF copied
          THEN pc' = "export_set" /\ UNCHANGED <<err, endVars>>
          ELSE Fatal("Couldn't copy a string")
    /\ StdoutAfterStep
    /\ UNCHANGED <<wordv, argi, env, cwd, promptLabel, builtinRan, setFailed,
                   cdVars, procVars, expandVars, iterVars, eofNewlines,
                   stdinState>>

\* faulty variant: an argument without '=' is exported with an empty value
ExportArgBareSetsEmpty(e, arg, nomem) ==
    IF HasEq(arg)
    THEN setenv(e, strsepKey(arg), strsepValue(arg), nomem)
    ELSE setenv(e, arg, <<>>, nomem)

\* strsep and setenv for one argument (lines 48-53)
ExportArg(e, arg, nomem) ==
    IF HasEq(arg)
    THEN setenv(e, strsepKey(arg), strsepValue(arg), nomem)
    ELSE [rc |-> "ok", env |-> e]

ExportSet ==
    /\ pc = "export_set"
    /\ \E nomem \in BOOLEAN :
          LET r == ExportArg(env, wordv[argi], nomem) IN
          /\ env' = r.env
          /\ err' = IF r.rc = "fail" THEN Append(err, "Couldn't set")
                    ELSE err
          /\ setFailed' = IF r.rc = "fail" THEN setFailed \cup {argi}
                          ELSE setFailed
    /\ argi' = NextArg(wordv, argi)
    /\ pc' = LoopOrPrompt(wordv, argi + 1, "export")
    /\ StdoutAfterStep
    /\ UNCHANGED <<wordv, cwd, promptLabel, builtinRan, cdVars, procVars,
                   expandVars, iterVars, endVars, eofNewlines, stdinState>>

-----------------------------------------------------------------------------
(* do_unset (lines 58-64) *)

DoUnsetArg ==
    /\ pc = "unset"
    /\ LET r == unsetenv(env, wordv[argi]) IN
          /\ env' = r.env
          /\ err' = IF r.rc = "fail" THEN Append(err, "Couldn't unset")
                    ELSE err
    /\ argi' = NextArg(wordv, argi)
    /\ pc' = LoopOrPrompt(wordv, argi + 1, "unset")
    /\ StdoutAfterStep
    /\ UNCHANGED <<wordv, cwd, promptLabel, builtinRan, setFailed, cdVars,
                   procVars, expandVars, iterVars, endVars, eofNewlines,
                   stdinState>>

-----------------------------------------------------------------------------
(* do_cd (lines 66-84) *)

\* chdir: the working directory changes only when the target exists
chdir(dir, cur) ==
    IF dir \in Dirs THEN [rc |-> "ok", cwd |-> dir]
    ELSE [rc |-> "fail", cwd |-> cur]

CdResult(dir, tried, target, msgs) ==
    [cwd |-> dir, tried |-> tried, target |-> target, err |-> msgs]

\* faulty variant: the check for a second argument is missing
do_cdNoCount(args, e, cur) ==
    IF Len(args) = 0 /\ getenv(e, HOME) = <<>>
    THEN CdResult(cur, FALSE, <<>>, <<"HOME not set">>)
    ELSE
      LET dir == IF Len(args) = 0 THEN getenv(e, HOME)[1] ELSE args[1]
          r == chdir(dir, cur)
      IN CdResult(r.cwd, TRUE, dir,
                  IF r.rc = "fail" THEN <<"Couldn't cd">> ELSE <<>>)

\* args is the argument vector after the word cd
do_cd(args, e, cur) ==
    IF Len(args) = 0 /\ getenv(e, HOME) = <<>>
    THEN CdResult(cur, FALSE, <<>>, <<"HOME not set">>)
    ELSE
      LET dir == IF Len(args) = 0 THEN getenv(e, HOME)[1] ELSE args[1]
          rest == IF Len(args) = 0 THEN args ELSE Tail(args)
      IN IF Len(rest) # 0
         THEN CdResult(cur, FALSE, <<>>, <<"Too many arguments">>)
         ELSE LET r == chdir(dir, cur) IN
              CdResult(r.cwd, TRUE, dir,
                       IF r.rc = "fail" THEN <<"Couldn't cd">> ELSE <<>>)

\* faulty variant: a successful chdir is recorded in the variable PWD
DoCdSetsPwd ==
    /\ pc = "cd"
    /\ LET r == do_cd(Tail(wordv), env, cwd) IN
          /\ cwd' = r.cwd
          /\ chdirTried' = r.tried
          /\ chdirTarget' = r.target
          /\ err' = err \o r.err
          /\ env' = IF r.tried /\ r.err = <<>>
                    THEN setenv(env, <<"PWD">>, r.cwd, FALSE).env
                    ELSE env
    /\ pc' = "prompt"
    /\ StdoutAfterStep
    /\ UNCHANGED <<wordv, argi, promptLabel, builtinRan, setFailed,
                   procVars, expandVars, iterVars, endVars, eofNewlines,
                   stdinState>>

DoCd ==
    /\ pc = "cd"
    /\ LET r == do_cd(Tail(wordv), env, cwd) IN
          /\ cwd' = r.cwd
          /\ chdirTried' = r.tried
          /\ chdirTarget' = r.target
          /\ err' = err \o r.err
    /\ pc' = "prompt"
    /\ StdoutAfterStep
    /\ UNCHANGED <<wordv, argi, env, promptLabel, builtinRan, setFailed,
                   procVars, expandVars, iterVars, endVars, eofNewlines,
                   stdinState>>

-----------------------------------------------------------------------------
(* launch (lines 86-112) *)

\* the child fork creates: a copy of the shell, the undelivered contents of
\* its stdout buffer included, about to call execvp
ForkedChild(prog, pending) ==
    [st |-> "forked", prog |-> prog, ws |-> NoStatus, diag |-> <<>>,
     buf |-> pending, echo |-> <<>>, traced |-> FALSE]

\* faulty variant: the program is given the environment the shell started
\* with
LaunchStartupEnv(ws, e) ==
    <<[program |-> ws[1], argv |-> ws, environ |-> InitEnv]>>

\* what launch asks for: the program and the argument vector handed to
\* execvp, and the environment the program starts with, which is the one
\* the child got from fork since execvp passes environ on (lines 87, 93)
Launch(ws, e) ==
    <<[program |-> ws[1], argv |-> ws, environ |-> e]>>

\* fork (lines 87-91): it fails when no process slot is free, and may fail
\* otherwise; on success the child starts as a copy of the shell
Fork ==
    /\ pc = "launch"
    /\ lineForks' = lineForks + 1
    /\ launched' = Launch(wordv, env)
    /\ \E ok \in BOOLEAN :
          IF ok /\ FreePids # {}
          THEN /\ child' = [child EXCEPT ![LowestFree] =
                               ForkedChild(wordv[1], outBuf)]
               /\ waitPid' = LowestFree
               /\ pc' = "wait"
               /\ UNCHANGED err
          ELSE /\ err' = Append(err, "Failed to fork")
               /\ pc' = "prompt"
               /\ UNCHANGED <<child, waitPid>>
    /\ StdoutAfterStep
    /\ UNCHANGED <<wordv, argi, env, cwd, promptLabel, report, builtinRan,
                   setFailed, cdVars, expandVars, iterVars, endVars,
                   eofNewlines, stdinState, sigchld, stdoutMode>>

\* faulty variant: the failure is reported with error(0, ...) and the child
\* returns from launch into the loop of main
execvpReturns(c) ==
    IF c.prog \in Programs
    THEN [c EXCEPT !.st = "running", !.buf = <<>>]
    ELSE [c EXCEPT !.st = "shell", !.diag = <<"Failed to exec">>]

\* what the child does after fork (lines 92-97): execvp replaces the image,
\* the stdout buffer with it, or fails, and error(EXIT_FAILURE, ...) delivers
\* the child's copy of the buffer, writes the diagnostic and ends the child
execvp(c) ==
    IF c.prog \in Programs
    THEN [c EXCEPT !.st = "running", !.buf = <<>>]
    ELSE [c EXCEPT !.st = "zombie", !.ws = Exited(EXIT_FAILURE),
                   !.diag = <<"Failed to exec">>,
                   !.echo = c.buf, !.buf = <<>>]

shellVars == <<pc, wordv, argi, env, cwd, err, promptLabel, builtinRan,
               setFailed, cdVars, waitPid, sigchld, stdoutMode, report,
               lineForks,
               launched, expandVars, iterVars, endVars, eofNewlines,
               stdinState, stdoutVars>>

ChildExec(p) ==
    /\ child[p].st = "forked"
    /\ child' = [child EXCEPT ![p] = execvp(child[p])]
    /\ UNCHANGED shellVars

\* the launched program ends: it exits or is killed by a signal
ChildTerminate(p) ==
    /\ child[p].st = "running"
    /\ \E ws \in Endings :
          child' = [child EXCEPT ![p].st = "zombie", ![p].ws = ws]
    /\ UNCHANGED shellVars

\* the launched program asks to be traced by its parent, the shell
\* (PTRACE_TRACEME)
ChildTraceMe(p) ==
    /\ child[p].st = "running"
    /\ ~child[p].traced
    /\ child' = [child EXCEPT ![p].traced = TRUE]
    /\ UNCHANGED shellVars

\* the signals on which a traced program stops: every signal it is sent
\* but SIGKILL
StopSignals == {SIGSTOP} \cup (Signals \ {SIGKILL})

\* the launched program stops while traced, on whatever signal it gets:
\* waitpid reports a status that is neither WIFEXITED nor WIFSIGNALED
ChildStop(p) ==
    /\ child[p].st = "running"
    /\ child[p].traced
    /\ \E g \in StopSignals :
          child' = [child EXCEPT ![p].st = "stopped", ![p].ws = Stopped(g)]
    /\ UNCHANGED shellVars

\* a child that terminates while SIGCHLD is ignored leaves no status to
\* wait for, unless the shell traces it
AutoReaped(c) == sigchld = "SIG_IGN" /\ ~c.traced

\* waitpid returns the status of the child waited for (lines 100, 104-110)
WaitReturn ==
    /\ pc = "wait"
    /\ \/ child[waitPid].st = "zombie" /\ ~AutoReaped(child[waitPid])
       \/ child[waitPid].st = "stopped"
    /\ waitPid' = 0
    /\ IF WIFEXITED(WStatus(child[waitPid].ws))
          \/ WIFSIGNALED(WStatus(child[waitPid].ws))
       THEN /\ report' = report \o TerminationReport(WStatus(child[waitPid].ws))
            /\ LET w == PrintLine(stdoutMode, out, outBuf,
                                  ReportLine(report'[Len(report')]))
               IN out' = w.out /\ outBuf' = w.buf
            /\ child' = [child EXCEPT ![waitPid] = FreeSlot]
            /\ pc' = "prompt"
            /\ UNCHANGED <<err, endVars>>
       ELSE /\ Fatal("waitpid should have waited")
            /\ Flush
            /\ UNCHANGED <<report, child>>
    /\ UNCHANGED <<wordv, argi, env, cwd, promptLabel, builtinRan, setFailed,
                   cdVars, lineForks, launched, expandVars, iterVars,
                   eofNewlines, stdinState, sigchld, stdoutMode>>

\* faulty variant: waitpid returns -1 without waiting; the child is left
\* as it is
WaitFailChildAlive ==
    /\ pc = "wait"
    /\ err' = Append(err, "Failed to wait for child")
    /\ waitPid' = 0
    /\ pc' = "prompt"
    /\ StdoutAfterStep
    /\ UNCHANGED <<wordv, argi, env, cwd, promptLabel, builtinRan, setFailed,
                   cdVars, child, sigchld, stdoutMode, report, lineForks,
                   launched,
                   expandVars, iterVars, endVars, eofNewlines, stdinState>>

\* faulty variant: a failed waitpid is reported with error(EXIT_FAILURE, ...)
WaitFailFatal ==
    /\ pc = "wait"
    /\ child[waitPid].st = "zombie" /\ AutoReaped(child[waitPid])
    /\ child' = [child EXCEPT ![waitPid] = FreeSlot]
    /\ Fatal("Failed to wait for child")
    /\ waitPid' = 0
    /\ StdoutAfterStep
    /\ UNCHANGED <<wordv, argi, env, cwd, promptLabel, builtinRan, setFailed,
                   cdVars, sigchld, stdoutMode, report, lineForks, launched,
                   expandVars,
                   iterVars, eofNewlines, stdinState>>

\* waitpid returns -1 (lines 100-103).  The shell installs no signal handler,
\* so the call is never interrupted; it fails with ECHILD when the shell has
\* inherited an ignored SIGCHLD: it then blocks until the child has
\* terminated, the child is reaped without a status, and launch reports the
\* failure and returns
WaitFail ==
    /\ pc = "wait"
    /\ child[waitPid].st = "zombie" /\ AutoReaped(child[waitPid])
    /\ child' = [child EXCEPT ![waitPid] = FreeSlot]
    /\ err' = Append(err, "Failed to wait for child")
    /\ waitPid' = 0
    /\ pc' = "prompt"
    /\ StdoutAfterStep
    /\ UNCHANGED <<wordv, argi, env, cwd, promptLabel, builtinRan, setFailed,
                   cdVars, sigchld, stdoutMode, report, lineForks, launched,
                   expandVars,
                   iterVars, endVars, eofNewlines, stdinState>>

-----------------------------------------------------------------------------
(* The specification *)

Next ==
    \/ Prompt
    \/ GetLineEnd
    \/ ReadLine
    \/ Dispatch
    \/ ExportDup
    \/ ExportSet
    \/ DoUnsetArg
    \/ DoCd
    \/ Fork
    \/ \E p \in Pids : ChildExec(p)
    \/ \E p \in Pids : ChildTerminate(p)
    \/ \E p \in Pids : ChildTraceMe(p)
    \/ \E p \in Pids : ChildStop(p)
    \/ WaitReturn
    \/ WaitFail

Spec == Init /\ [][Next]_vars

-----------------------------------------------------------------------------
(* Vocabulary of the properties *)

\* positions of the loop past the rendering of a prompt, outside waitpid
LoopPositions ==
    {"read", "dispatch", "export", "export_set", "unset", "cd", "launch"}

AliveChildren == {p \in Pids : Alive(child[p])}

BuiltinWords == {W_export, W_unset, W_exit, W_cd}

LastErr == IF err = <<>> THEN "" ELSE err[Len(err)]

\* an iteration's wordexp call has been made
Expanded == lastEc # "none"

-----------------------------------------------------------------------------
(* Properties *)

\* C1: the shell is synchronous with respect to launched programs: past the
\* prompt that follows a launch no child of the shell is alive, and two
\* children are never alive together, whatever waitpid returned.
C1_StrictlySynchronous ==
    /\ Cardinality(AliveChildren) <= 1
    /\ pc \in LoopPositions => AliveChildren = {}

\* C1 witness: the waitpid of a launch has failed, and the shell is on its
\* way to the next prompt with the launched child gone.
C1_Witness ==
    /\ pc = "prompt"
    /\ lineForks = 1
    /\ "Failed to wait for child" \in {err[i] : i \in 1..Len(err)}
    /\ \A p \in Pids : child[p].st = "free"

\* C2: every wordexp call of the loop asks for command substitution to be
\* rejected and for undefined variables to fail, so a line holding a command
\* substitution is refused: no substitution is run, nothing is dispatched
\* and no process is started for it.
C2_CommandSubstitutionRejected ==
    Expanded =>
        /\ {"WRDE_NOCMD", "WRDE_UNDEF"} \subseteq lastFlags
        /\ LineHasSub(line) =>
              /\ lastEc # WRDE_OK
              /\ lineSubs = 0
              /\ lineForks = 0
              /\ builtinRan = "none"

\* C3: when the shell process has ended, by whatever path, the line buffer
\* and the expander state have each been released exactly once; neither is
\* ever released twice.
C3_ReleasedExactlyOnce ==
    /\ lineFreed <= 1
    /\ expFreed <= 1
    /\ pc = "done" => lineFreed = 1 /\ expFreed = 1

\* C4: when wordexp returns one of the five classified failures the loop
\* writes the matching diagnostic and is back at the prompt: no builtin has
\* run, no process has been started, neither by launch nor by the expansion
\* itself, and the Environment Store and the working directory are what
\* they were when the iteration began.
C4_ClassifiedFailureSkipsDispatch ==
    lastEc \in ClassifiedErrors =>
        /\ pc = "prompt"
        /\ LastErr = ExpandMessage(lastEc)
        /\ builtinRan = "none"
        /\ lineForks = 0
        /\ lineSubs = 0
        /\ env = envAtPrompt
        /\ cwd = cwdAtPrompt
        /\ exitStatus = <<>>

\* the expansion has succeeded with a first word that is no builtin
ExternalCommand ==
    lastEc = WRDE_OK /\ Len(wordv) > 0 /\ wordv[1] \notin BuiltinWords

\* C5: fork is called for a line exactly when its expansion succeeded with
\* a non-empty word vector whose first word is none of export, unset, exit,
\* cd; it is then called once, with the first word as the program and the
\* whole vector as argv.  A blank line runs no builtin and forks nothing; a
\* builtin line forks nothing.
C5_SpawnIffExternalCommand ==
    /\ lineForks <= 1
    /\ lineForks = 1 =>
          /\ ExternalCommand
          /\ Len(launched) = 1
          /\ launched[1].program = wordv[1]
          /\ launched[1].argv = wordv
    /\ ExternalCommand /\ pc \notin {"dispatch", "launch"} => lineForks = 1
    /\ lastEc = WRDE_OK /\ wordv = NoWords =>
          builtinRan = "none" /\ lineForks = 0
    /\ builtinRan # "none" => lineForks = 0 /\ wordv[1] \in BuiltinWords

\* C5 witness: a line whose first word differs from cd only by case has
\* been handed to launch with its full argument vector.
C5_Witness ==
    /\ pc = "wait"
    /\ lineForks = 1
    /\ Len(launched) = 1
    /\ launched[1].program = <<"CD">>
    /\ launched[1].argv = <<<<"CD">>, D2>>

-----------------------------------------------------------------------------
(* export arguments as the properties read them *)

ArgHasEq(w) == \E i \in 1..Len(w) : w[i] = EQ

\* the position of the first '='
ArgSplit(w) == CHOOSE i \in 1..Len(w) : w[i] = EQ /\ \A j \in 1..(i - 1) : w[j] # EQ

ArgKey(w) == [j \in 1..(ArgSplit(w) - 1) |-> w[j]]

ArgValue(w) == [j \in 1..(Len(w) - ArgSplit(w)) |-> w[ArgSplit(w) + j]]

GoodKey(k) == Len(k) > 0 /\ \A j \in 1..Len(k) : k[j] # EQ

\* the export builtin has finished and control is back at the prompt
ExportFinished == builtinRan = "export" /\ pc = "prompt"

ExportArgs == 2..Len(wordv)

\* argument i assigns: it has an '=', a valid key, and its set did not fail
Assigns(i) ==
    /\ ArgHasEq(wordv[i])
    /\ GoodKey(ArgKey(wordv[i]))
    /\ i \notin setFailed

AssignedKeys == {ArgKey(wordv[i]) : i \in {j \in ExportArgs : Assigns(j)}}

SameBinding(e1, e2, k) ==
    /\ k \in DOMAIN e1 <=> k \in DOMAIN e2
    /\ k \in DOMAIN e1 => e1[k] = e2[k]

\* C6 as stated: once export has finished, every argument K=V with a valid
\* key (whose set did not fail) has left K mapped to V, and the keys no
\* argument names are unchanged.
C6_EveryArgumentBound ==
    ExportFinished =>
        /\ \A i \in ExportArgs :
              Assigns(i) =>
                  /\ ArgKey(wordv[i]) \in DOMAIN env
                  /\ env[ArgKey(wordv[i])] = ArgValue(wordv[i])
        /\ \A k \in (DOMAIN env \cup DOMAIN envAtPrompt) \ AssignedKeys :
              SameBinding(env, envAtPrompt, k)

\* C6 amended: once export has finished, every argument K=V with a valid
\* key whose set succeeded, and which no later such argument of the command
\* overrides, has left K mapped to V; a failed set is reported and the
\* arguments after it are still applied; keys not assigned are unchanged.
C6_LastArgumentWins ==
    ExportFinished =>
        /\ \A i \in ExportArgs :
              (/\ Assigns(i)
               /\ \A j \in ExportArgs :
                     j > i /\ Assigns(j) => ArgKey(wordv[j]) # ArgKey(wordv[i]))
              => /\ ArgKey(wordv[i]) \in DOMAIN env
                 /\ env[ArgKey(wordv[i])] = ArgValue(wordv[i])
        /\ \A k \in (DOMAIN env \cup DOMAIN envAtPrompt) \ AssignedKeys :
              SameBinding(env, envAtPrompt, k)
        /\ \A i \in ExportArgs :
              ArgHasEq(wordv[i]) /\ ~GoodKey(ArgKey(wordv[i])) => i \in setFailed
        /\ Len(SelectSeq(err, LAMBDA m : m = "Couldn't set"))
              = Cardinality(setFailed)

\* C6 witness: export =1 A=2 has finished; the first set failed and was
\* reported, the second overwrote the previous value of A.
C6_Witness ==
    /\ ExportFinished
    /\ wordv = <<W_export, <<EQ, "1">>, <<"A", EQ, "2">>>>
    /\ setFailed = {2}
    /\ A \in DOMAIN envAtPrompt
    /\ envAtPrompt[A] = <<"1", EQ, "2">>
    /\ env[A] = <<"2">>

\* a step of the shell that handles the export or unset argument at argi
ArgStep(at) == pc = at /\ <<pc, argi>>' # <<pc, argi>>

\* C7: handling an export argument without '=' (lines 48-54) leaves the
\* Environment Store exactly as it was, writes no diagnostic, and does not
\* end the session: the loop goes on to the next argument or the prompt.
C7_BareArgumentIgnored ==
    [][ArgStep("export_set") /\ ~ArgHasEq(wordv[argi]) =>
          /\ env' = env
          /\ err' = err
          /\ exitStatus' = <<>>
          /\ pc' \in {"export", "prompt"}]_vars

\* C7 witness: export A has finished with A set beforehand, and A has kept
\* its value.
C7_Witness ==
    /\ ExportFinished
    /\ wordv = <<W_export, A>>
    /\ A \in DOMAIN env
    /\ env = envAtPrompt
    /\ err = <<>>

\* C8: handling an unset argument removes that key and leaves every other
\* key as it was; when the key is not set the Environment Store is
\* unchanged; unsetting a well-formed key, set or not, reports nothing; the
\* session goes on in every case.
C8_UnsetRemovesAndIsIdempotent ==
    [][ArgStep("unset") =>
          LET k == wordv[argi] IN
          /\ k \notin DOMAIN env'
          /\ DOMAIN env' = DOMAIN env \ {k}
          /\ \A x \in DOMAIN env' : env'[x] = env[x]
          /\ k \notin DOMAIN env => env' = env
          /\ GoodKey(k) => err' = err
          /\ exitStatus' = <<>>
          /\ pc' \in {"unset", "prompt"}]_vars

\* C8 witness: unset A has finished on a store in which A was not set; the
\* store is unchanged and nothing was reported.
C8_Witness ==
    /\ builtinRan = "unset"
    /\ pc = "prompt"
    /\ wordv = <<W_unset, A>>
    /\ A \notin DOMAIN envAtPrompt
    /\ env = envAtPrompt
    /\ err = <<>>

\* the cd builtin has finished and control is back at the prompt
CdFinished == builtinRan = "cd" /\ pc = "prompt"

CdDiagnostics == {"HOME not set", "Too many arguments", "Couldn't cd"}

\* C9: a bare cd targets the value HOME has in the Environment Store at
\* that moment: chdir is called with it when HOME is set, and when HOME is
\* unset "HOME not set" is reported and chdir is not called.  cd with one
\* argument calls chdir with that argument.
C9_CdTargetsCurrentHome ==
    CdFinished =>
        /\ Len(wordv) = 1 /\ HOME \in DOMAIN env =>
              chdirTried /\ chdirTarget = env[HOME]
        /\ Len(wordv) = 1 /\ HOME \notin DOMAIN env =>
              /\ ~chdirTried
              /\ LastErr = "HOME not set"
              /\ cwd = cwdAtPrompt
        /\ Len(wordv) = 2 => chdirTried /\ chdirTarget = wordv[2]

\* C9 witness: after HOME was exported with a new value, a bare cd has
\* moved the shell to that directory.
C9_Witness ==
    /\ CdFinished
    /\ Len(wordv) = 1
    /\ HOME \in DOMAIN env
    /\ env[HOME] = D2
    /\ env[HOME] # InitEnv[HOME]
    /\ cwdAtPrompt = D1
    /\ cwd = D2

\* C10: whenever cd reports an error the working directory is what it was
\* before the command and the session goes on; with more than one argument
\* the error is reported without chdir being called.
C10_CdErrorKeepsDirectory ==
    CdFinished =>
        /\ LastErr \in CdDiagnostics => cwd = cwdAtPrompt /\ exitStatus = <<>>
        /\ Len(wordv) > 2 => ~chdirTried /\ LastErr = "Too many arguments"
        /\ chdirTried /\ chdirTarget \notin Dirs => LastErr = "Couldn't cd"
        /\ cwd # cwdAtPrompt => LastErr \notin CdDiagnostics

\* C10 witness: cd with two arguments has reported the error from a
\* directory other than the first argument, and the shell has not moved.
C10_Witness ==
    /\ CdFinished
    /\ wordv = <<W_cd, D2, D1>>
    /\ LastErr = "Too many arguments"
    /\ cwd = D1
    /\ ~chdirTried

-----------------------------------------------------------------------------
(* Termination reports *)

\* a step in which waitpid returns the status of the child (launch, line 100
\* returning the pid)
WaitSucceeds ==
    pc = "wait" /\ pc' # "wait" /\ LastErr' # "Failed to wait for child"

\* C11: when the wait of a launch succeeds, a child that exited with code c
\* gets exactly one report, of exit code c; a child killed by signal s gets
\* exactly one report, of the number and the name of s; any other wait
\* outcome ends the shell with a non-zero status and no report.  Reports are
\* written by no other step, and the prompt follows.
C11_OneMatchingReport ==
    [][/\ WaitSucceeds =>
            /\ report = <<>>
            /\ child[waitPid].ws.kind = "exited" =>
                  /\ report' = <<[text |-> "Process exited with error code",
                                  n |-> child[waitPid].ws.n, name |-> ""]>>
                  /\ pc' = "prompt"
            /\ child[waitPid].ws.kind = "signaled" =>
                  /\ report' = <<[text |-> "Process was terminated by signal",
                                  n |-> child[waitPid].ws.n,
                                  name |-> strsignal(child[waitPid].ws.n)]>>
                  /\ pc' = "prompt"
            /\ child[waitPid].ws.kind \notin {"exited", "signaled"} =>
                  /\ report' = <<>>
                  /\ pc' = "done"
                  /\ exitStatus' # <<>>
                  /\ exitStatus' # <<EXIT_SUCCESS>>
       /\ ~WaitSucceeds /\ pc' # "read" => report' = report
       /\ pc' = "read" /\ pc # "read" => pc = "prompt" /\ Len(report) <= 1
      ]_vars

\* a launched program has ended with exit code 2 and has been reported so
C11_Witness ==
    /\ pc = "prompt"
    /\ lineForks = 1
    /\ report = <<[text |-> "Process exited with error code", n |-> 2,
                   name |-> ""]>>

-----------------------------------------------------------------------------
(* The child between fork and execvp *)

\* C12: a child whose execvp fails writes its diagnostic and terminates with
\* a non-zero exit code in that very step, and no child is ever a second
\* shell inside the loop; the step changes nothing of the parent, which then
\* reports a child that exited with that code and goes on to the prompt.
C12_FailedExecEndsChild ==
    [][/\ \A p \in Pids :
            /\ child'[p].st # "shell"
            /\ child[p].st = "forked" /\ child'[p] # child[p]
                  /\ child[p].prog \notin Programs =>
                    /\ child'[p].st = "zombie"
                    /\ child'[p].ws.kind = "exited"
                    /\ child'[p].ws.n # 0
                    /\ child'[p].diag = <<"Failed to exec">>
                    /\ UNCHANGED shellVars
       /\ WaitSucceeds /\ child[waitPid].diag = <<"Failed to exec">> =>
            /\ child[waitPid].ws.n # 0
            /\ report' = <<[text |-> "Process exited with error code",
                            n |-> child[waitPid].ws.n, name |-> ""]>>
            /\ pc' = "prompt"
            /\ exitStatus' = <<>>
      ]_vars

\* the shell is back at the prompt after reporting a child that could not
\* execute the program named on the line
C12_Witness ==
    /\ pc = "prompt"
    /\ launched # <<>>
    /\ launched[1].program \notin Programs
    /\ report = <<[text |-> "Process exited with error code",
                   n |-> EXIT_FAILURE, name |-> ""]>>
    /\ exitStatus = <<>>

-----------------------------------------------------------------------------
(* The environment of a launched program *)

\* C13: the program of every spawn is given the environment the shell holds
\* at that moment, which is the Environment Store as the exports and unsets
\* before it have left it, and the store does not change while the child
\* is launched and waited for.
C13_ChildInheritsEnvironment ==
    [][/\ pc = "launch" /\ pc' = "wait" =>
            /\ child[waitPid'].st = "free"
            /\ child'[waitPid'].st = "forked"
            /\ Len(launched') = 1
            /\ launched'[1].environ = env
            /\ env' = env
       /\ pc = "wait" => /\ launched[1].environ = env
                         /\ env' = env
      ]_vars

\* a program runs with A exported and HOME unset by earlier commands
C13_Witness ==
    /\ pc = "wait"
    /\ child[waitPid].st = "running"
    /\ DOMAIN launched[1].environ = {A}
    /\ launched[1].environ[A] = <<"2">>

-----------------------------------------------------------------------------
(* The end of the session *)

\* C14: at a clean end of input the shell, which is waiting for a line with
\* nothing pending on stdout, writes one newline and no diagnostic and ends
\* with status 0, whatever ran before; once ended it takes no further
\* step: no prompt, no read, no dispatch.
C14_CleanEndOfInput ==
    [][/\ pc = "read" /\ pc' # "read" /\ ~Expanded' /\ stdinState' = "eof" =>
            /\ pc' = "done"
            /\ eofNewlines = 0 /\ eofNewlines' = 1
            /\ outBuf = <<>> /\ outBuf' = <<>>
            /\ out' = Append(out, Newline)
            /\ err' = err
            /\ exitStatus' = <<EXIT_SUCCESS>>
       /\ pc = "done" => UNCHANGED shellVars
      ]_vars

\* the input ended after an export had changed the Environment Store
C14_Witness ==
    /\ stdinState = "eof"
    /\ pc = "done"
    /\ eofNewlines = 1
    /\ env # InitEnv
    /\ exitStatus = <<EXIT_SUCCESS>>
    /\ out[Len(out)] = Newline

\* how the shell process came to its end, read off the state it ended in
EndedBy ==
    CASE builtinRan = "exit" -> "exit"
      [] builtinRan = "export" -> "copy failure"
      [] lineForks > 0 -> "wait outcome"
      [] lastEc \notin ClassifiedErrors \cup {WRDE_OK, "none"} -> "wordexp code"
      [] stdinState = "eof" -> "end of input"
      [] stdinState = "error" -> "read error"
      [] OTHER -> "other"

FatalMessage(cause) ==
    CASE cause = "read error" -> "Failed to read next line"
      [] cause = "copy failure" -> "Couldn't copy a string"
      [] cause = "wait outcome" -> "waitpid should have waited"
      [] cause = "wordexp code" -> "Unexpected wordexp error code"
      [] OTHER -> ""

\* C15: the shell has an exit status only once it has ended; the status is
\* 0 exactly when it ended through the exit builtin or at a clean end of
\* input, and non-zero, after the matching diagnostic, when it ended on a
\* failed copy in export, an unrecognized wordexp code, a wait outcome that
\* is neither exit nor signal, or a read error on stdin.
C15_ExitStatus ==
    /\ pc # "done" <=> exitStatus = <<>>
    /\ pc = "done" =>
          /\ Len(exitStatus) = 1
          /\ EndedBy # "other"
          /\ exitStatus = <<EXIT_SUCCESS>> <=>
                EndedBy \in {"exit", "end of input"}
          /\ EndedBy \notin {"exit", "end of input"} =>
                /\ exitStatus[1] # 0
                /\ LastErr = FatalMessage(EndedBy)

-----------------------------------------------------------------------------
(* Recoverable errors *)

\* the diagnostics of the conditions after which the loop goes on
RecoverableMessages ==
    {"Couldn't get cwd", "Couldn't set", "Couldn't unset", "HOME not set",
     "Too many arguments", "Couldn't cd", "Failed to fork",
     "Failed to wait for child"}
    \cup {ExpandMessage(ec) : ec \in ClassifiedErrors}

\* where control may be after a step taken at a given position that wrote
\* a recoverable diagnostic: prompt() goes on to the read, an argument loop
\* to its next argument or to the prompt, everything else to the prompt
AfterRecoverable(at) ==
    CASE at = "prompt" -> {"read"}
      [] at = "export_set" -> {"export", "prompt"}
      [] at = "unset" -> {"unset", "prompt"}
      [] OTHER -> {"prompt"}

\* C16: a step that writes a recoverable diagnostic never ends the shell
\* and prints nothing else: control goes to the next prompt, or to the next
\* argument of the same export or unset command; the rest of an unset
\* command always reaches the prompt, the rest of an export command does
\* unless a copy of a later argument fails, which is fatal; and the step
\* taken at the prompt always renders a complete prompt and goes on to the
\* read of the next line.
C16_RecoverableErrorsContinue ==
    [][/\ err' # err /\ LastErr' \in RecoverableMessages =>
            /\ pc' \in AfterRecoverable(pc)
            /\ exitStatus' = <<>>
            /\ outBuf' = <<>>
       /\ pc = "unset" => pc' \in {"unset", "prompt"}
       /\ pc \in {"export", "export_set"} =>
            \/ pc' \in {"export", "export_set", "prompt"}
            \/ pc' = "done" /\ LastErr' = "Couldn't copy a string"
       /\ pc = "prompt" /\ pc' # pc =>
            /\ pc' = "read"
            /\ Len(out') >= 2
            /\ out'[Len(out') - 1] = DirLine(promptLabel')
            /\ out'[Len(out')] = Marker
      ]_vars

\* a failed waitpid has been reported and the shell is at the next prompt
C16_Witness ==
    /\ pc = "prompt"
    /\ LastErr = "Failed to wait for child"
    /\ exitStatus = <<>>

-----------------------------------------------------------------------------
(* The prompt and the stdout buffer *)

\* a step in which getline returns: a line, the end of input, or an error
ReadStep == pc = "read" /\ pc' # "read"

\* C17: whenever getline returns, stdout has nothing undelivered and the
\* last two things it has delivered since the previous read are the two
\* lines of a prompt, whose label is the working directory or one of the
\* two placeholders, the second one exactly when the failure of getcwd was
\* reported; one prompt, no more, has been rendered since the previous read.
C17_PromptBeforeEveryRead ==
    [][ReadStep =>
          /\ outBuf = <<>>
          /\ Len(out) >= 2
          /\ out[Len(out) - 1] = DirLine(promptLabel)
          /\ out[Len(out)] = Marker
          /\ Cardinality({i \in 1..Len(out) : out[i] = Marker}) = 1
          /\ promptLabel \in {cwd, PathTooLong, FailedCwd}
          /\ promptLabel = FailedCwd <=> err = <<"Couldn't get cwd">>
      ]_vars

\* the shell waits for a line behind a prompt that shows the placeholder of
\* a failed getcwd and was delivered after the report of the last launch
C17_Witness ==
    /\ pc = "read"
    /\ promptLabel = FailedCwd
    /\ Len(out) = 3
    /\ out[1].k = "report"
    /\ outBuf = <<>>

\* C19: when fork is called the shell has nothing undelivered on stdout, so
\* no child starts with a copy of a prompt or of a termination report, and
\* a child whose execvp fails delivers nothing of the shell's when it ends.
C19_NothingPendingAtSpawn ==
    /\ pc = "launch" => outBuf = <<>>
    /\ \A p \in Pids : child[p].buf = <<>> /\ child[p].echo = <<>>

\* in a later iteration of the loop, a child whose execvp failed has ended
\* and has delivered nothing
C19_Witness ==
    /\ pc = "wait"
    /\ child[waitPid].st = "zombie"
    /\ child[waitPid].diag = <<"Failed to exec">>
    /\ child[waitPid].echo = <<>>
    /\ envAtPrompt # InitEnv

-----------------------------------------------------------------------------
(* The keys of the Environment Store, and what each builtin leaves alone *)

\* C18: no step puts an empty key or a key with an '=' into the Environment
\* Store; the only key a step may add is the part before the first '=' of
\* the export argument it handles; handling an export argument whose key
\* is empty changes nothing in the store and writes the diagnostic of a
\* failed set, after which the shell is still running.
C18_KeysWellFormed ==
    [][/\ \A k \in DOMAIN env' : GoodKey(k)
       /\ DOMAIN env' # DOMAIN env =>
            \/ pc = "export_set" /\ ArgHasEq(wordv[argi])
                  /\ DOMAIN env' = DOMAIN env \cup {ArgKey(wordv[argi])}
            \/ pc = "unset" /\ DOMAIN env' = DOMAIN env \ {wordv[argi]}
       /\ ArgStep("export_set") /\ ArgHasEq(wordv[argi])
             /\ Len(ArgKey(wordv[argi])) = 0 =>
            /\ env' = env
            /\ err' = Append(err, "Couldn't set")
            /\ pc' \in {"export", "prompt"}
            /\ exitStatus' = <<>>
      ]_vars

\* `export =1 A=2` has finished: the first argument was refused and
\* reported, the second one set
C18_Witness ==
    /\ ExportFinished
    /\ wordv = <<W_export, <<EQ, "1">>, <<"A", EQ, "2">>>>
    /\ setFailed = {2}
    /\ DOMAIN env = DOMAIN envAtPrompt \cup {A}
    /\ "Couldn't set" \in {err[i] : i \in 1..Len(err)}

====
